---- MODULE Spec2Model ----
(***************************************************************************)
(* Model of the ledger formatter (src/lib/src/beautifier.rs): beautify,    *)
(* the layout State with print/println/indent, and the node formatters.    *)
(*                                                                         *)
(* Texts are sequences of characters (one-character strings; a character   *)
(* outside ASCII is written by its code point name and has a UTF-8 length  *)
(* greater than one).  A syntax-tree node is a record                      *)
(*   [kind, named, missing, text, row, children].                          *)
(* usize values are held as integers: a negative integer x stands for the  *)
(* wrapped value 2^64 + x, which is what a release build computes when an  *)
(* unsigned subtraction goes below zero.                                   *)
(***************************************************************************)
EXTENDS Integers, Sequences, FiniteSets, TLC

VARIABLES
  tree,             \* root node of the parsed document (tree.root_node())
  state,            \* the State struct, with the process's stdout, the build's
                    \* overflow checks and the Result so far
  pc,               \* position of beautify
  i,                \* format_document: index of the next root child
  j,                \* index of the next child inside a directive / xact loop
  added_newline,    \* format_document's collapsing flag
  result            \* what beautify returned

vars == <<tree, state, pc, i, j, added_newline, result>>

(***************************************************************************)
(* Strings                                                                 *)
(***************************************************************************)
\* a character is a string of one character, or, outside ASCII, the name of
\* its code point; WideChars take 2 bytes in UTF-8, ThreeByteChars 3
WideChars == {"U+00E9", "U+0085", "U+00A0"}
ThreeByteChars ==
  {"U+1680", "U+2000", "U+2001", "U+2002", "U+2003", "U+2004", "U+2005",
   "U+2006", "U+2007", "U+2008", "U+2009", "U+200A", "U+2028", "U+2029",
   "U+202F", "U+205F", "U+3000"}

\* number of UTF-8 bytes of one character
utf8_len(c) ==
  IF c \in ThreeByteChars THEN 3 ELSE IF c \in WideChars THEN 2 ELSE 1

\* str::len(): the length in bytes
len(string) ==
  Len(string)
  + Cardinality({k \in 1..Len(string) : utf8_len(string[k]) = 2})
  + 2 * Cardinality({k \in 1..Len(string) : utf8_len(string[k]) = 3})

\* char::is_whitespace, as str::trim uses it: the characters of the Unicode
\* property White_Space (U+0009..U+000D, U+0020, U+0085, U+00A0, U+1680,
\* U+2000..U+200A, U+2028, U+2029, U+202F, U+205F, U+3000)
is_whitespace(c) ==
  c \in {"\t", "\n", "", "\f", "\r", " ", "U+0085", "U+00A0"}
        \cup ThreeByteChars

RECURSIVE trim_start(_)
trim_start(string) ==
  IF string # <<>> /\ is_whitespace(Head(string))
  THEN trim_start(Tail(string)) ELSE string

RECURSIVE trim_end(_)
trim_end(string) ==
  IF string # <<>> /\ is_whitespace(string[Len(string)])
  THEN trim_end(SubSeq(string, 1, Len(string) - 1)) ELSE string

\* str::trim()
trim(string) == trim_end(trim_start(string))

\* " ".repeat(n) for a count that is no wrapped value
spaces(n) == [k \in 1..n |-> " "]

(***************************************************************************)
(* usize arithmetic                                                        *)
(***************************************************************************)
\* unsigned a < b on the representation (negative = wrapped = at least 2^63)
usize_lt(a, b) ==
  IF (a < 0) = (b < 0) THEN a < b ELSE b < 0

\* a - b on usize, wrapping
usize_sub(a, b) == a - b

\* a - b panics ("attempt to subtract with overflow") when the build has
\* overflow checks (a debug build)
sub_panics(st, a, b) == st.overflow_checks /\ usize_lt(a, b)

\* std::cmp::max on usize
usize_max(a, b) == IF usize_lt(a, b) THEN b ELSE a

\* " ".repeat(n) panics ("capacity overflow") when n exceeds isize::MAX
repeat_panics(n) == n < 0

(***************************************************************************)
(* Tree-sitter nodes                                                       *)
(***************************************************************************)
Leaf(kind, text) ==
  [kind |-> kind, named |-> TRUE, missing |-> FALSE, text |-> text, row |-> 0,
   children |-> <<>>]

Token(kind, text) ==
  [kind |-> kind, named |-> FALSE, missing |-> FALSE, text |-> text, row |-> 0,
   children |-> <<>>]

Node(kind, children) ==
  [kind |-> kind, named |-> TRUE, missing |-> FALSE, text |-> <<>>, row |-> 0,
   children |-> children]

AtRow(node, r) == [node EXCEPT !.row = r]

None == [kind |-> "None"]

\* Option::is_some
is_some(opt) == opt # None

RECURSIVE SelectSeq2(_, _)
\* the subsequence of the nodes whose kind is in kinds (Iterator::filter)
SelectSeq2(nodes, kinds) ==
  IF nodes = <<>> THEN <<>>
  ELSE IF Head(nodes).kind \in kinds
       THEN <<Head(nodes)>> \o SelectSeq2(Tail(nodes), kinds)
       ELSE SelectSeq2(Tail(nodes), kinds)

RECURSIVE RejectSeq(_, _)
\* the subsequence of the nodes whose kind is not in kinds
RejectSeq(nodes, kinds) ==
  IF nodes = <<>> THEN <<>>
  ELSE IF Head(nodes).kind \notin kinds
       THEN <<Head(nodes)>> \o RejectSeq(Tail(nodes), kinds)
       ELSE RejectSeq(Tail(nodes), kinds)

\* Node::children
children(node) == node.children

\* Node::named_children
named_children(node) ==
  LET RECURSIVE keep(_)
      keep(ns) == IF ns = <<>> THEN <<>>
                  ELSE IF Head(ns).named THEN <<Head(ns)>> \o keep(Tail(ns))
                       ELSE keep(Tail(ns))
  IN keep(node.children)

\* Node::child(n), n counted from 0
child(node, n) ==
  IF n + 1 <= Len(node.children) THEN node.children[n + 1] ELSE None

\* Node::named_child(n), n counted from 0
named_child(node, n) ==
  IF n + 1 <= Len(named_children(node)) THEN named_children(node)[n + 1] ELSE None

\* Iterator::find(|c| c.kind() is one of kinds)
find(nodes, kinds) ==
  IF SelectSeq2(nodes, kinds) = <<>> THEN None ELSE Head(SelectSeq2(nodes, kinds))

\* Node::utf8_text
utf8_text(node) == node.text

\* Node::is_error
is_error(node) == node.kind = "ERROR"

RECURSIVE has_error(_)
\* Node::has_error: the node is or contains an ERROR or a MISSING node
has_error(node) ==
  \/ is_error(node)
  \/ node.missing
  \/ \E k \in 1..Len(node.children) : has_error(node.children[k])

(***************************************************************************)
(* State and its primitives                                                *)
(***************************************************************************)
NumSpaces == 2
AlignColumn == 60

\* the State built by beautify; stdout is what print!/println! have written,
\* overflow_checks is the build profile (TRUE: a debug build), res is "ok"
\* until a `?` propagates an error ("err") or the run panics ("panic")
State(inplace, overflow_checks) ==
  [formatted |-> <<>>, inplace |-> inplace, col |-> 0, row |-> 0, level |-> 0,
   extra_indentation |-> 0, num_spaces |-> NumSpaces, stdout |-> <<>>,
   overflow_checks |-> overflow_checks, res |-> "ok"]

\* State::print
print(st, string) ==
  IF st.res # "ok" THEN st
  ELSE [st EXCEPT
          !.formatted = IF st.inplace THEN @ \o string ELSE @,
          !.stdout = IF st.inplace THEN @ ELSE @ \o string,
          !.col = @ + len(string)]

\* println whose stream branch writes no line break (print! for println!)
println_stream_without_newline(st, string) ==
  IF st.res # "ok" THEN st
  ELSE [st EXCEPT
          !.formatted = IF st.inplace THEN @ \o string \o <<"\n">> ELSE @,
          !.stdout = IF st.inplace THEN @ ELSE @ \o string,
          !.col = 0,
          !.row = @ + 1]

\* State::println
println(st, string) ==
  IF st.res # "ok" THEN st
  ELSE [st EXCEPT
          !.formatted = IF st.inplace THEN @ \o string \o <<"\n">> ELSE @,
          !.stdout = IF st.inplace THEN @ ELSE @ \o string \o <<"\n">>,
          !.col = 0,
          !.row = @ + 1]

\* State::print_node
print_node(st, node) == print(st, utf8_text(node))

RECURSIVE print_times(_, _, _)
\* `for _ in 0..n { self.print(string) }`
print_times(st, n, string) ==
  IF n = 0 THEN st ELSE print_times(print(st, string), n - 1, string)

\* State::indent
indent(st) ==
  print_times(print_times(st, st.level, spaces(st.num_spaces)),
              st.extra_indentation, <<" ">>)

\* Option::err_at_loc on None followed by `?`: the run ends with an error
err_at_loc(st) == IF st.res = "ok" THEN [st EXCEPT !.res = "err"] ELSE st

\* a panic unwinds the run
panic(st) == IF st.res = "ok" THEN [st EXCEPT !.res = "panic"] ELSE st

\* state.level += 1
level_inc(st) == IF st.res = "ok" THEN [st EXCEPT !.level = @ + 1] ELSE st

\* level_dec forgotten: the level stays increased
level_dec_forgotten(st) == st

\* state.level -= 1
level_dec(st) ==
  IF st.res # "ok" THEN st
  ELSE IF sub_panics(st, st.level, 1) THEN panic(st)
  ELSE [st EXCEPT !.level = usize_sub(@, 1)]

(***************************************************************************)
(* Amount, price, balance assertion, posting                               *)
(***************************************************************************)
\* format_amount
format_amount(st, node) ==
  LET negative_quantity == find(named_children(node), {"negative_quantity"})
      quantity == find(named_children(node), {"quantity"})
      commodity == find(named_children(node), {"commodity"})
      s1 == IF is_some(negative_quantity)
            THEN print(st, trim(utf8_text(negative_quantity))) ELSE st
      s2 == IF is_some(quantity)
            THEN print(s1, trim(utf8_text(quantity))) ELSE s1
  IN IF is_some(commodity)
     THEN print(print(s2, <<" ">>), trim(utf8_text(commodity)))
     ELSE s2

\* format_price
format_price(st, node) ==
  LET first == child(node, 0)
      amount == find(named_children(node), {"amount"})
  IN IF ~is_some(first) THEN err_at_loc(st)
     ELSE LET s1 == print(print(st, utf8_text(first)), <<" ">>)
          IN IF ~is_some(amount) THEN err_at_loc(s1)
             ELSE format_amount(s1, amount)

\* format_balance_assertion
format_balance_assertion(st, node) ==
  LET s1 == print(st, <<"=", " ">>)
      amount == find(named_children(node), {"amount"})
  IN IF ~is_some(amount) THEN err_at_loc(s1) ELSE format_amount(s1, amount)

\* format_posting, lines 467-480: status and account
format_posting_account(st, node) ==
  LET status == find(named_children(node), {"status"})
      account == find(named_children(node), {"account"})
      s1 == IF is_some(status) THEN print(st, utf8_text(status)) ELSE st
  IN IF is_some(account) THEN print(s1, utf8_text(account)) ELSE s1

\* format_posting, line 481: the count of `" ".repeat(max(0, 60 - state.col))`
fallback_spacing(col) == usize_max(0, usize_sub(AlignColumn, col))

\* format_posting, line 481: whether that statement panics
fallback_spacing_panics(st) ==
  sub_panics(st, AlignColumn, st.col) \/ repeat_panics(fallback_spacing(st.col))

\* quantity_spacing without the `- 1`
quantity_spacing_to_column(col, number_size) ==
  usize_max(0, usize_sub(usize_sub(AlignColumn, col), number_size))

\* format_posting, line 494: the count of
\* `" ".repeat(max(0, 60 - state.col - number_size - 1))`
quantity_spacing(col, number_size) ==
  usize_max(0, usize_sub(usize_sub(usize_sub(AlignColumn, col), number_size), 1))

\* format_posting, line 494: whether that statement panics
quantity_spacing_panics(st, number_size) ==
  \/ sub_panics(st, AlignColumn, st.col)
  \/ sub_panics(st, usize_sub(AlignColumn, st.col), number_size)
  \/ sub_panics(st, usize_sub(usize_sub(AlignColumn, st.col), number_size), 1)
  \/ repeat_panics(quantity_spacing(st.col, number_size))

\* format_posting, lines 482-498: padding and amount; the state before the
\* amount is printed
format_posting_padding(st, node) ==
  LET amount == find(named_children(node), {"amount"})
      number == find(named_children(amount), {"quantity", "negative_quantity"})
      number_size == len(trim(utf8_text(number)))
  IN IF ~is_some(number) THEN err_at_loc(st)
     ELSE IF quantity_spacing_panics(st, number_size) THEN panic(st)
     ELSE print(st, spaces(quantity_spacing(st.col, number_size)))

\* format_posting
format_posting(st, node) ==
  LET s2 == format_posting_account(st, node)
      s3 == IF fallback_spacing_panics(s2) THEN panic(s2) ELSE s2
      spacing0 == spaces(fallback_spacing(s2.col))
      amount == find(named_children(node), {"amount"})
      price == find(named_children(node), {"price"})
      balance_assertion == find(named_children(node), {"balance_assertion"})
      note == find(named_children(node), {"note"})
      s4 == IF is_some(amount)
            THEN format_amount(format_posting_padding(s3, node), amount) ELSE s3
      spacing1 == IF is_some(amount) THEN <<" ">> ELSE spacing0
      s5 == IF is_some(price)
            THEN format_price(print(s4, spacing1), price) ELSE s4
      spacing2 == IF is_some(price) THEN <<" ">> ELSE spacing1
      s6 == IF is_some(balance_assertion)
            THEN format_balance_assertion(print(s5, spacing2), balance_assertion)
            ELSE s5
      spacing3 == IF is_some(balance_assertion) THEN <<" ">> ELSE spacing2
      s7 == IF is_some(note)
            THEN print(print(s6, spacing3), trim(utf8_text(note))) ELSE s6
  IN println(s7, <<>>)

(***************************************************************************)
(* Directives                                                              *)
(***************************************************************************)
\* format_argument_subdirective
format_argument_subdirective(st, node, argument) ==
  LET s1 == print(print(st, argument), <<" ">>)
      alias == find(children(node), {"value"})
  IN IF ~is_some(alias) THEN err_at_loc(s1) ELSE print(s1, utf8_text(alias))

\* format_format_subdirective
format_format_subdirective(st, node) ==
  LET s1 == print(st, <<"f", "o", "r", "m", "a", "t", " ">>)
      amount == find(children(node), {"amount"})
  IN IF ~is_some(amount) THEN err_at_loc(s1) ELSE format_amount(s1, amount)

\* the keyword an argument subdirective kind is printed with
keyword(kind) ==
  CASE kind = "alias_subdirective" -> <<"a", "l", "i", "a", "s">>
    [] kind = "note_subdirective" -> <<"n", "o", "t", "e">>
    [] kind = "assert_subdirective" -> <<"a", "s", "s", "e", "r", "t">>
    [] kind = "check_subdirective" -> <<"c", "h", "e", "c", "k">>
    [] kind = "payee_subdirective" -> <<"p", "a", "y", "e", "e">>
    [] kind = "default_subdirective" -> <<"d", "e", "f", "a", "u", "l", "t">>
    [] kind = "nomarket_subdirective" -> <<"n", "o", "m", "a", "r", "k", "e", "t">>

\* format_account_directive, lines 165-176: the first line
format_account_directive_head(st, node) ==
  LET s1 == print(st, <<"a", "c", "c", "o", "u", "n", "t", " ">>)
      account == named_child(node, 0)
  IN IF ~is_some(account) THEN err_at_loc(s1)
     ELSE level_inc(println(s1, utf8_text(account)))

\* format_account_directive, lines 171-175: the children the loop visits
format_account_directive_children(node) ==
  SelectSeq2(children(node), {"account_subdirective"})

\* format_account_directive, lines 178-205: one iteration of the loop
format_account_directive_child(st, sub) ==
  LET c == child(sub, 0)
  IN IF ~is_some(c) THEN err_at_loc(st)
     ELSE IF c.kind \in {"alias_subdirective", "note_subdirective",
                         "assert_subdirective", "check_subdirective",
                         "payee_subdirective"}
          THEN format_argument_subdirective(indent(st), c, keyword(c.kind))
     ELSE IF c.kind = "default_subdirective"
          THEN println(indent(st), keyword(c.kind))
     ELSE st

\* format_commodity_directive, lines 212-223: the first line
format_commodity_directive_head(st, node) ==
  LET s1 == print(st, <<"c", "o", "m", "m", "o", "d", "i", "t", "y", " ">>)
      commodity == named_child(node, 0)
  IN IF ~is_some(commodity) THEN err_at_loc(s1)
     ELSE level_inc(println(s1, utf8_text(commodity)))

\* format_commodity_directive, lines 218-222: the children the loop visits
format_commodity_directive_children(node) ==
  SelectSeq2(children(node), {"commodity_subdirective"})

\* format_commodity_directive, lines 225-248: one iteration of the loop
format_commodity_directive_child(st, sub) ==
  LET c == child(sub, 0)
  IN IF ~is_some(c) THEN err_at_loc(st)
     ELSE IF c.kind \in {"alias_subdirective", "note_subdirective"}
          THEN format_argument_subdirective(indent(st), c, keyword(c.kind))
     ELSE IF c.kind = "format_subdirective"
          THEN format_format_subdirective(indent(st), c)
     ELSE IF c.kind \in {"default_subdirective", "nomarket_subdirective"}
          THEN println(indent(st), keyword(c.kind))
     ELSE st

\* format_tag_directive, lines 255-264: the first line
format_tag_directive_head(st, node) ==
  LET s1 == print(st, <<"t", "a", "g", " ">>)
      tag == find(named_children(node), {"tag"})
  IN IF ~is_some(tag) THEN err_at_loc(s1)
     ELSE level_inc(println(s1, trim(utf8_text(tag))))

\* format_tag_directive, line 265: the children the loop visits
format_tag_directive_children(node) == named_children(node)

\* format_tag_directive, lines 266-276: one iteration of the loop
format_tag_directive_child(st, c) ==
  IF c.kind \in {"assert_subdirective", "check_subdirective"}
  THEN format_argument_subdirective(indent(st), c, keyword(c.kind))
  ELSE st

RECURSIVE format_word_directive_loop(_, _, _)
\* format_word_directive, lines 285-298: the loop, with its `first` flag
format_word_directive_loop(st, nodes, first) ==
  IF nodes = <<>> THEN st
  ELSE LET c == Head(nodes)
           value == trim(utf8_text(c))
       IN IF c.kind = "whitespace" \/ value = <<>>
          THEN format_word_directive_loop(st, Tail(nodes), first)
          ELSE format_word_directive_loop(
                 print(IF ~first THEN print(st, <<" ">>) ELSE st, value),
                 Tail(nodes), FALSE)

\* format_word_directive
format_word_directive(st, node) ==
  println(format_word_directive_loop(st, children(node), TRUE), <<>>)

(***************************************************************************)
(* Transactions                                                            *)
(***************************************************************************)
types_first_line == {"date", "effective_date", "status", "code", "payee"}

RECURSIVE format_plain_xact_first_line(_, _)
\* format_plain_xact, lines 340-359: the fields of the first line
format_plain_xact_first_line(st, nodes) ==
  IF nodes = <<>> THEN st
  ELSE LET c == Head(nodes)
           value == utf8_text(c)
           s1 == IF c.kind = "date" THEN print(st, value)
                 ELSE IF c.kind = "effective_date"
                      THEN print(print(st, <<"=">>), value)
                 ELSE print(print(st, <<" ">>), value)
       IN format_plain_xact_first_line(s1, Tail(nodes))

\* format_plain_xact, lines 338-361: the first line
format_plain_xact_head(st, node) ==
  level_inc(println(
    format_plain_xact_first_line(
      st, SelectSeq2(named_children(node), types_first_line)),
    <<>>))

\* format_plain_xact, lines 362-364: the children the loop visits
format_plain_xact_children(node) ==
  RejectSeq(named_children(node), types_first_line)

\* lines 366-377, 407-418, 448-459: one iteration of a transaction's loop
format_xact_child(st, c) ==
  IF c.kind = "note" THEN println(indent(st), utf8_text(c))
  ELSE IF c.kind = "posting" THEN format_posting(indent(st), c)
  ELSE st

\* lines 385-401 and 426-442: the first line of a periodic_xact ("~ " and its
\* interval) or of an automated_xact ("= " and its query)
format_header_xact_head(st, node, sign, field) ==
  LET s1 == print(st, <<sign, " ">>)
      first == find(named_children(node), {field})
      note == find(named_children(node), {"note"})
  IN IF ~is_some(first) THEN err_at_loc(s1)
     ELSE LET s2 == print(s1, trim(utf8_text(first)))
              s3 == IF is_some(note)
                    THEN print(print(s2, <<" ">>), utf8_text(note)) ELSE s2
          IN level_inc(println(s3, <<>>))

\* format_periodic_xact, lines 384-401: the first line
format_periodic_xact_head(st, node) ==
  format_header_xact_head(st, node, "~", "interval")

\* format_periodic_xact, lines 402-405: the children the loop visits
format_periodic_xact_children(node) ==
  RejectSeq(named_children(node), {"note", "interval"})

\* format_automated_xact, lines 425-442: the first line
format_automated_xact_head(st, node) ==
  format_header_xact_head(st, node, "=", "query")

\* format_automated_xact, lines 443-446: the children the loop visits
format_automated_xact_children(node) ==
  RejectSeq(named_children(node), {"note", "query"})

(***************************************************************************)
(* The formatters with a loop, whole and step by step                      *)
(***************************************************************************)
LoopKinds ==
  {"account_directive", "commodity_directive", "tag_directive",
   "plain_xact", "periodic_xact", "automated_xact"}

\* the part of a formatter before its loop
format_head(st, node) ==
  CASE node.kind = "account_directive" -> format_account_directive_head(st, node)
    [] node.kind = "commodity_directive" -> format_commodity_directive_head(st, node)
    [] node.kind = "tag_directive" -> format_tag_directive_head(st, node)
    [] node.kind = "plain_xact" -> format_plain_xact_head(st, node)
    [] node.kind = "periodic_xact" -> format_periodic_xact_head(st, node)
    [] node.kind = "automated_xact" -> format_automated_xact_head(st, node)

\* the children a formatter's loop visits, in order
loop_children(node) ==
  CASE node.kind = "account_directive" -> format_account_directive_children(node)
    [] node.kind = "commodity_directive" -> format_commodity_directive_children(node)
    [] node.kind = "tag_directive" -> format_tag_directive_children(node)
    [] node.kind = "plain_xact" -> format_plain_xact_children(node)
    [] node.kind = "periodic_xact" -> format_periodic_xact_children(node)
    [] node.kind = "automated_xact" -> format_automated_xact_children(node)

\* one iteration of a formatter's loop
format_child(st, node, c) ==
  CASE node.kind = "account_directive" -> format_account_directive_child(st, c)
    [] node.kind = "commodity_directive" -> format_commodity_directive_child(st, c)
    [] node.kind = "tag_directive" -> format_tag_directive_child(st, c)
    [] node.kind \in {"plain_xact", "periodic_xact", "automated_xact"} ->
         format_xact_child(st, c)

RECURSIVE format_loop(_, _, _)
\* the iterations of a formatter's loop over nodes; a failed iteration ends
\* the loop (the ? of the loop body)
format_loop(st, node, nodes) ==
  IF st.res # "ok" \/ nodes = <<>> THEN st
  ELSE format_loop(format_child(st, node, Head(nodes)), node, Tail(nodes))

\* format_account_directive, format_commodity_directive, format_tag_directive,
\* format_plain_xact, format_periodic_xact, format_automated_xact
format_with_loop(st, node) ==
  level_dec(format_loop(format_head(st, node), node, loop_children(node)))

\* format_directive
format_directive(st, node) ==
  LET c == child(node, 0)
  IN IF ~is_some(c) THEN err_at_loc(st)
     ELSE IF c.kind = "option" THEN print_node(st, c)
     ELSE IF c.kind \in {"account_directive", "commodity_directive",
                         "tag_directive"}
          THEN format_with_loop(st, c)
     ELSE IF c.kind \in {"word_directive", "char_directive"}
          THEN format_word_directive(st, c)
     ELSE st

\* format_xact
format_xact(st, node) ==
  LET c == child(node, 0)
  IN IF ~is_some(c) THEN err_at_loc(st)
     ELSE IF c.kind \in {"plain_xact", "periodic_xact", "automated_xact"}
          THEN format_with_loop(st, c)
     ELSE st

\* format_journal_item
format_journal_item(st, node) ==
  IF node.kind \in {"comment", "block_comment", "block_test"}
  THEN print_node(st, node)
  ELSE IF node.kind = "directive" THEN format_directive(st, node)
  ELSE IF node.kind = "xact" THEN format_xact(st, node)
  ELSE st

\* format_document, lines 131-133: a child that is no blank-line marker
format_document_child(st, c) ==
  IF ~is_some(child(c, 0)) THEN err_at_loc(st)
  ELSE format_journal_item(st, child(c, 0))

\* format_document_newline that ignores the flag
format_document_newline_always(st, flag) == println(st, <<>>)

\* format_document, lines 126-129: a blank-line marker; flag is added_newline
format_document_newline(st, flag) ==
  IF ~flag THEN println(st, <<>>) ELSE st

RECURSIVE format_document_loop(_, _, _)
\* format_document, lines 125-135, over nodes; flag is added_newline; a failed
\* child ends the loop (the ? of line 133)
format_document_loop(st, nodes, flag) ==
  IF st.res # "ok" \/ nodes = <<>> THEN st
  ELSE IF Head(nodes).kind = "\n"
       THEN format_document_loop(format_document_newline(st, flag),
                                 Tail(nodes), TRUE)
       ELSE format_document_loop(format_document_child(st, Head(nodes)),
                                 Tail(nodes), FALSE)

\* format_document
format_document(st, node) == format_document_loop(st, children(node), FALSE)

RECURSIVE find_first_error_node(_)
RECURSIVE find_first_error_in(_)
\* find_first_error_node, lines 113-117: the loop over the children
find_first_error_in(nodes) ==
  IF nodes = <<>> THEN None
  ELSE IF is_some(find_first_error_node(Head(nodes)))
       THEN find_first_error_node(Head(nodes))
       ELSE find_first_error_in(Tail(nodes))

\* find_first_error_node
find_first_error_node(node) ==
  IF is_error(node) THEN node ELSE find_first_error_in(children(node))

\* the Result of beautify: tag is "Ok" (value: the string), "Err" (line: the
\* line of the message), "ErrNoNode", "ErrToken" (err_at_loc), "Panic"
Result(tag, value, line) == [tag |-> tag, value |-> value, line |-> line]

\* parse_error reporting the row as the line (no + 1)
parse_error_row_as_line(root) ==
  LET error_node == find_first_error_node(root)
  IN IF ~is_some(error_node) THEN Result("ErrNoNode", <<>>, 0)
     ELSE Result("Err", <<>>, error_node.row)

\* beautify, lines 85-91: the error return when the root has an error
parse_error(root) ==
  LET error_node == find_first_error_node(root)
  IN IF ~is_some(error_node) THEN Result("ErrNoNode", <<>>, 0)
     ELSE Result("Err", <<>>, error_node.row + 1)

\* beautify, lines 104-106, in terms of the final state
returned(st) ==
  IF st.res = "ok" THEN Result("Ok", st.formatted, 0)
  ELSE IF st.res = "err" THEN Result("ErrToken", <<>>, 0)
  ELSE Result("Panic", <<>>, 0)

\* beautify, lines 93-105: the final state of a run on an error-free tree
beautify_state(root, inplace, overflow_checks) ==
  LET s1 == format_document(State(inplace, overflow_checks), root)
  IN println(s1, <<>>)

\* beautify
beautify(root, inplace, overflow_checks) ==
  IF has_error(root) THEN parse_error(root)
  ELSE returned(beautify_state(root, inplace, overflow_checks))

(***************************************************************************)
(* Input documents                                                         *)
(***************************************************************************)
MaxDocLen == 3
MaxSubs == 2
MaxQuantityLen == 2
MaxAccountLen == 59
MaxRow == 2

Chars(n, c) == [k \in 1..n |-> c]

\* all sequences over pool of length at most n
SeqsUpTo(pool, n) == UNION {[1..m -> pool] : m \in 0..n}

Root(nodes) == Node("source_file", nodes)
Item(node) == Node("journal_item", <<node>>)
Blank == Token("\n", <<"\n">>)
Whitespace == Token("whitespace", <<" ">>)

\* postings
Quantities ==
  {Leaf("quantity", Chars(n, "9")) : n \in 1..MaxQuantityLen}
  \cup {Leaf("negative_quantity", <<" ", "-", "9">>),
        Leaf("quantity", <<"9", "\r">>)}
Commodity == Leaf("commodity", <<"$", " ">>)
Amounts ==
  {Node("amount", <<q, Whitespace, Commodity>>) : q \in Quantities}
  \cup {Node("amount", <<q>>) : q \in Quantities}
  \cup {Node("amount", <<Commodity>>)}
AmountOne == Node("amount", <<Leaf("quantity", <<"1">>)>>)
Price == Node("price", <<Token("@", <<"@">>), Whitespace, AmountOne>>)
BalanceAssertion == Node("balance_assertion", <<Token("=", <<"=">>), AmountOne>>)
PostingNote == Leaf("note", <<" ", ";", "n">>)
PostingTails ==
  {<<>>, <<Price>>, <<BalanceAssertion>>, <<PostingNote>>,
   <<Price, BalanceAssertion, PostingNote>>,
   <<Node("price", <<>>)>>, <<Node("balance_assertion", <<>>)>>}
AccountTexts ==
  {Chars(n, "a") : n \in {1} \cup ((AlignColumn - 7)..MaxAccountLen)}
  \cup {<<"U+00E9", "b">>}
PostingHeads ==
  {<<Leaf("account", a)>> : a \in AccountTexts}
  \cup {<<Leaf("status", <<"*", " ">>), Leaf("account", <<"a">>)>>, <<>>}
Postings ==
  {Node("posting", h \o t) : h \in PostingHeads, t \in PostingTails}
  \cup {Node("posting", h \o <<a>> \o t) :
          h \in PostingHeads, a \in Amounts, t \in {<<>>, <<PostingNote>>}}
SimplePosting ==
  Node("posting", <<Leaf("account", <<"a">>),
                    Node("amount", <<Leaf("quantity", <<"5">>)>>)>>)

\* transactions
Date == Leaf("date", <<"1", "/", "2">>)
PlainXact(nodes) == Item(Node("xact", <<Node("plain_xact", nodes)>>))
PlainHeads ==
  {<<Date>>,
   <<Date, Leaf("effective_date", <<"3", "/", "4">>), Leaf("status", <<"!">>),
     Leaf("code", <<"(", "7", ")">>), Leaf("payee", <<"p">>)>>}
XactNote(c) == Leaf("note", <<";", c>>)
XactBodies ==
  {<<>>, <<XactNote("1")>>, <<SimplePosting>>,
   <<XactNote("1"), SimplePosting>>,
   <<XactNote("1"), XactNote("2"), SimplePosting>>,
   <<XactNote("1"), SimplePosting, XactNote("2")>>,
   <<SimplePosting, XactNote("1"), Leaf("other", <<"o">>)>>}
HeaderXact(kind, field, fields, body) ==
  Item(Node("xact", <<Node(kind, fields \o body)>>))
HeaderXacts ==
  {HeaderXact("periodic_xact", "interval", f, b) :
     f \in {<<>>, <<Leaf("interval", <<" ", "m", " ">>)>>}, b \in XactBodies}
  \cup {HeaderXact("automated_xact", "query", f, b) :
     f \in {<<>>, <<Leaf("query", <<" ", "q", " ">>)>>}, b \in XactBodies}
PeriodicNoInterval ==
  Item(Node("xact", <<Node("periodic_xact", <<SimplePosting>>)>>))

\* directives
Directive(node) == Item(Node("directive", <<node>>))
Value(text) == Leaf("value", text)
Sub(wrapper, kind, nodes) == Node(wrapper, <<Node(kind, nodes)>>)
AccountSubs ==
  {Sub("account_subdirective", "alias_subdirective",
       <<Token("alias", <<"alias">>), Whitespace, Value(<<"v", "\n">>)>>),
   Sub("account_subdirective", "note_subdirective", <<>>),
   Sub("account_subdirective", "default_subdirective", <<>>),
   Sub("account_subdirective", "eval_subdirective", <<>>),
   Node("account_subdirective", <<>>)}
CommoditySubs ==
  {Sub("commodity_subdirective", "alias_subdirective", <<Value(<<"v">>)>>),
   Sub("commodity_subdirective", "format_subdirective",
       <<Node("amount", <<Leaf("quantity", <<"1">>), Commodity>>)>>),
   Sub("commodity_subdirective", "format_subdirective", <<>>),
   Sub("commodity_subdirective", "nomarket_subdirective", <<>>),
   Sub("commodity_subdirective", "default_subdirective", <<>>),
   Node("commodity_subdirective", <<>>)}
TagSubs ==
  {Node("assert_subdirective", <<Value(<<"v", "\n">>)>>),
   Node("check_subdirective", <<>>),
   Node("other_subdirective", <<>>)}
Directives ==
  {Directive(Node("account_directive",
                  <<Token("account", <<"account">>), Leaf("account", <<"A">>)>>
                  \o subs)) : subs \in SeqsUpTo(AccountSubs, MaxSubs)}
  \cup {Directive(Node("commodity_directive", <<Leaf("commodity", <<"$">>)>> \o subs)) :
          subs \in SeqsUpTo(CommoditySubs, MaxSubs)}
  \cup {Directive(Node("tag_directive", <<Leaf("tag", <<" ", "t">>)>> \o subs)) :
          subs \in SeqsUpTo(TagSubs, MaxSubs)}
  \cup {Directive(Node("account_directive", <<Token("account", <<"account">>)>>)),
        Directive(Node("commodity_directive", <<>>)),
        Directive(Node("tag_directive", <<Node("check_subdirective", <<>>)>>)),
        Directive(Leaf("option", <<"-", "-", "x", "\n">>)),
        Directive(Node("word_directive",
                       <<Token("year", <<"y">>), Whitespace,
                         Leaf("value", <<"8", " ">>), Token("pad", <<" ">>),
                         Token("end", <<"\n">>)>>)),
        Directive(Node("char_directive",
                       <<Token("char", <<"N">>), Leaf("value", <<" ", "$">>)>>)),
        Directive(Node("other_directive", <<>>)),
        Item(Node("directive", <<>>)),
        Item(Node("xact", <<>>)),
        Item(Node("xact", <<Node("other_xact", <<>>)>>)),
        Node("journal_item", <<>>)}

\* items of documents of several items
Comment == Item(Leaf("comment", <<";", "c", "\n">>))
Unhandled == Item(Leaf("unhandled", <<"?">>))
SimpleXact == PlainXact(<<Date, SimplePosting>>)
DocItems == {Blank, Comment, Unhandled, SimpleXact, PeriodicNoInterval}

\* trees with errors: ERROR nodes at several depths and rows, a MISSING node
Error(r) == AtRow(Node("ERROR", <<>>), r)
Missing ==
  [kind |-> "payee", named |-> TRUE, missing |-> TRUE, text |-> <<>>,
   row |-> 0, children |-> <<>>]
ErrorTrees ==
  {Root(<<Comment, Error(r)>>) : r \in 1..MaxRow}
  \cup {Root(<<PlainXact(<<Date, AtRow(Node("posting", <<Error(r1)>>), r1)>>),
               Blank, Error(r2)>>) : r1 \in 0..MaxRow, r2 \in (MaxRow + 1)..(MaxRow + 2)}
  \cup {Root(<<AtRow(Node("ERROR", <<Error(r)>>), r), Comment>>) : r \in 0..MaxRow}
  \cup {AtRow(Node("ERROR", <<Comment>>), 0),
        Root(<<PlainXact(<<Date, Missing>>)>>)}

Trees ==
  {Root(d) : d \in SeqsUpTo(DocItems, MaxDocLen)}
  \cup {Root(<<PlainXact(h \o <<p>>)>>) : h \in PlainHeads, p \in Postings}
  \cup {Root(<<PlainXact(<<Date>> \o b)>>) : b \in XactBodies}
  \cup {Root(<<x>>) : x \in HeaderXacts}
  \cup {Root(<<d>>) : d \in Directives}
  \cup ErrorTrees

(***************************************************************************)
(* The run of beautify, step by step                                       *)
(***************************************************************************)
\* the node of root child c that a formatter with a loop handles, or None
loop_node(c) ==
  LET item == child(c, 0)
      inner == child(item, 0)
  IN IF c.kind = "\n" \/ ~is_some(item) THEN None
     ELSE IF item.kind \notin {"directive", "xact"} \/ ~is_some(inner) THEN None
     ELSE IF item.kind = "directive"
             /\ inner.kind \in {"account_directive", "commodity_directive",
                                "tag_directive"}
          THEN inner
     ELSE IF item.kind = "xact"
             /\ inner.kind \in {"plain_xact", "periodic_xact", "automated_xact"}
          THEN inner
     ELSE None

RootChild == children(tree)[i]
LoopNode == loop_node(RootChild)

Init ==
  /\ tree \in Trees
  /\ \E inplace \in BOOLEAN, overflow_checks \in BOOLEAN :
       state = State(inplace, overflow_checks)
  /\ pc = "start"
  /\ i = 1
  /\ j = 0
  /\ added_newline = FALSE
  /\ result = Result("None", <<>>, 0)

\* the state st is reached: the run goes on at position (p, i2, j2), unless
\* st is failed: then beautify returns, and i and j stay where the run failed
Continue(st, p, i2, j2) ==
  /\ state' = st
  /\ IF st.res = "ok"
     THEN pc' = p /\ i' = i2 /\ j' = j2 /\ result' = result
     ELSE pc' = "done" /\ i' = i /\ j' = j /\ result' = returned(st)

\* beautify, lines 86-91
beautify_has_error ==
  /\ pc = "start"
  /\ has_error(tree)
  /\ pc' = "done"
  /\ result' = parse_error(tree)
  /\ UNCHANGED <<tree, state, i, j, added_newline>>

\* beautify, lines 93-104: the State is built and format_document entered
beautify_format ==
  /\ pc = "start"
  /\ ~has_error(tree)
  /\ pc' = "document"
  /\ UNCHANGED <<tree, state, i, j, added_newline, result>>

\* format_document, lines 126-130: a blank-line marker
format_document_blank ==
  /\ pc = "document"
  /\ i <= Len(children(tree))
  /\ RootChild.kind = "\n"
  /\ Continue(format_document_newline(state, added_newline), "document", i + 1, j)
  /\ added_newline' = TRUE
  /\ UNCHANGED tree

\* format_document, lines 131-133: an item whose formatter has no loop
format_document_item ==
  /\ pc = "document"
  /\ i <= Len(children(tree))
  /\ RootChild.kind # "\n"
  /\ ~is_some(LoopNode)
  /\ Continue(format_document_child(state, RootChild), "document", i + 1, j)
  /\ added_newline' = FALSE
  /\ UNCHANGED tree

\* format_document, lines 131-133: an item whose formatter has a loop; the
\* formatter prints its first line and increases level
format_item_head ==
  /\ pc = "document"
  /\ i <= Len(children(tree))
  /\ is_some(LoopNode)
  /\ Continue(format_head(state, LoopNode), "loop", i, 1)
  /\ added_newline' = FALSE
  /\ UNCHANGED tree

\* one iteration of the loop of the formatter
format_item_child ==
  /\ pc = "loop"
  /\ j <= Len(loop_children(LoopNode))
  /\ Continue(format_child(state, LoopNode, loop_children(LoopNode)[j]),
              "loop", i, j + 1)
  /\ UNCHANGED <<tree, added_newline>>

\* the loop is over: level is decreased and the formatter returns
format_item_return ==
  /\ pc = "loop"
  /\ j > Len(loop_children(LoopNode))
  /\ Continue(level_dec(state), "document", i + 1, 0)
  /\ UNCHANGED <<tree, added_newline>>

\* beautify, lines 104-106: format_document returned; the last println
beautify_return ==
  /\ pc = "document"
  /\ i > Len(children(tree))
  /\ state' = println(state, <<>>)
  /\ pc' = "done"
  /\ result' = returned(state')
  /\ UNCHANGED <<tree, i, j, added_newline>>

Next ==
  \/ beautify_has_error
  \/ beautify_format
  \/ format_document_blank
  \/ format_document_item
  \/ format_item_head
  \/ format_item_child
  \/ format_item_return
  \/ beautify_return

Spec == Init /\ [][Next]_vars

TypeOK ==
  /\ pc \in {"start", "document", "loop", "done"}
  /\ state.res \in {"ok", "err", "panic"}
  /\ result.tag \in {"None", "Ok", "Err", "ErrNoNode", "ErrToken", "Panic"}

(***************************************************************************)
(* Properties                                                              *)
(***************************************************************************)
\* what the run has put out: the buffer (inplace) or the stream
Written(st) == IF st.inplace THEN st.formatted ELSE st.stdout

RECURSIVE Preorder(_)
RECURSIVE PreorderAll(_)
\* the nodes of a tree, each node before its children, children in order
Preorder(node) == <<node>> \o PreorderAll(node.children)
PreorderAll(nodes) ==
  IF nodes = <<>> THEN <<>> ELSE Preorder(Head(nodes)) \o PreorderAll(Tail(nodes))

\* the ERROR nodes of the tree, in that order
ErrorNodes(root) == SelectSeq(Preorder(root), LAMBDA n : n.kind = "ERROR")

\* C1: when the root reports an error, beautify returns an error before
\* format_document is entered: nothing is in the buffer or on the stream, in
\* either mode, and when the tree holds an ERROR node the line of the message
\* is the start row of the first ERROR node in preorder, plus one.
C1_ErrorAbortsBeforeOutput ==
  has_error(tree) =>
    /\ pc \in {"start", "done"}
    /\ state.formatted = <<>> /\ state.stdout = <<>>
    /\ state.row = 0 /\ state.col = 0
    /\ pc = "done" =>
         /\ result.tag \in {"Err", "ErrNoNode"}
         /\ result.value = <<>>
         /\ ErrorNodes(tree) # <<>> =>
              result = Result("Err", <<>>, ErrorNodes(tree)[1].row + 1)

\* beautify has returned the line of the first of several ERROR nodes, which
\* lie on different rows, one of them nested in a transaction
C1_Witness ==
  /\ pc = "done" /\ ~state.inplace
  /\ Len(ErrorNodes(tree)) = 2
  /\ tree.kind = "source_file"
  /\ ErrorNodes(tree)[1].row = 1
  /\ ErrorNodes(tree)[2].row > 1
  /\ ~is_error(tree.children[1])
  /\ result.tag = "Err" /\ result.line = 2

\* the positions of the line breaks of a text
Breaks(text) == {k \in 1..Len(text) : text[k] = "\n"}

\* the position of the n-th line break of a text; 0 for n = 0
BreakAt(text, n) ==
  IF n = 0 THEN 0
  ELSE CHOOSE k \in Breaks(text) : Cardinality({m \in Breaks(text) : m <= k}) = n

\* the lines of a text, without their line breaks
Lines(text) ==
  LET n == Cardinality(Breaks(text))
      rest == SubSeq(text, BreakAt(text, n) + 1, Len(text))
  IN [k \in 1..n |-> SubSeq(text, BreakAt(text, k - 1) + 1, BreakAt(text, k) - 1)]
     \o (IF rest = <<>> THEN <<>> ELSE <<rest>>)

IsBlankLine(line) == trim(line) = <<>>

\* C2: the complete output of a successful run has no two consecutive blank
\* lines and does not start with a blank line.
C2_NoBlankLineRuns ==
  (pc = "done" /\ result.tag = "Ok") =>
    LET ls == Lines(Written(state))
    IN /\ ls # <<>> => ~IsBlankLine(ls[1])
       /\ \A k \in 1..(Len(ls) - 1) : ~(IsBlankLine(ls[k]) /\ IsBlankLine(ls[k + 1]))

\* the child that the last step of a formatter's loop handled (the run went
\* on) or failed on (the run ended there), or None
AttemptedChild ==
  IF pc = "loop" /\ j > 1 THEN loop_children(LoopNode)[j - 1]
  ELSE IF pc = "done" /\ state.res # "ok" /\ j >= 1
          /\ j <= Len(loop_children(LoopNode))
       THEN loop_children(LoopNode)[j]
  ELSE None

\* the texts that format_posting prints before the padding
PostingStatus(p) ==
  IF is_some(find(named_children(p), {"status"}))
  THEN find(named_children(p), {"status"}).text ELSE <<>>
PostingAccount(p) ==
  IF is_some(find(named_children(p), {"account"}))
  THEN find(named_children(p), {"account"}).text ELSE <<>>

\* the number of characters of a posting's line up to the end of the account
\* (inside a transaction: one level of indentation)
PrefixChars(p) == NumSpaces + Len(PostingStatus(p)) + Len(PostingAccount(p))

\* c: col after indentation, status and account
PrefixCol(p) == NumSpaces + len(PostingStatus(p)) + len(PostingAccount(p))

\* the quantity or negative_quantity token of a posting's amount, or None
QuantityOf(p) ==
  IF is_some(find(named_children(p), {"amount"}))
  THEN find(named_children(find(named_children(p), {"amount"})),
            {"quantity", "negative_quantity"})
  ELSE None

\* L: the trimmed length of that token
NumberSize(p) == len(trim(QuantityOf(p).text))

\* the line that the last println ended
LastLine == Lines(Written(state))[Len(Lines(Written(state)))]

\* the column of the first character after the padding that follows the first
\* n characters of the line
ColumnAfterPadding(line, n) ==
  LET k == CHOOSE k \in (n + 1)..(Len(line) + 1) :
             /\ k <= Len(line) => line[k] # " "
             /\ \A m \in (n + 1)..(k - 1) : line[m] = " "
  IN len(SubSeq(line, 1, k - 1))

\* the quantity of a posting is printed in the line right after the padding
QuantityPrinted(line, p) ==
  \E k \in (PrefixChars(p) + 1)..Len(line) :
    /\ \A m \in (PrefixChars(p) + 1)..(k - 1) : line[m] = " "
    /\ SubSeq(line, k, k + Len(trim(QuantityOf(p).text)) - 1) = trim(QuantityOf(p).text)

\* C3 as stated: for a posting with an amount, c = col after indentation,
\* status and account, L = the trimmed length of the quantity token: when
\* c <= 60 - L the quantity starts at column max(60 - L, c).
C3_Stated ==
  LET p == AttemptedChild
  IN (is_some(p) /\ p.kind = "posting" /\ is_some(QuantityOf(p))
      /\ PrefixCol(p) <= AlignColumn - NumberSize(p)) =>
       /\ state.res = "ok"
       /\ QuantityPrinted(LastLine, p)
       /\ ColumnAfterPadding(LastLine, PrefixChars(p))
            = (IF AlignColumn - NumberSize(p) >= PrefixCol(p)
               THEN AlignColumn - NumberSize(p) ELSE PrefixCol(p))

\* C3, amended: when c <= 59 - L the quantity starts at column
\* max(59 - L, c) = 59 - L, after 60 - c - L - 1 spaces.
C3_QuantityColumn ==
  LET p == AttemptedChild
  IN (is_some(p) /\ p.kind = "posting" /\ is_some(QuantityOf(p))
      /\ PrefixCol(p) <= AlignColumn - 1 - NumberSize(p)) =>
       /\ state.res = "ok"
       /\ QuantityPrinted(LastLine, p)
       /\ ColumnAfterPadding(LastLine, PrefixChars(p))
            = AlignColumn - 1 - NumberSize(p)
       /\ AlignColumn - 1 - NumberSize(p) >= PrefixCol(p)

\* a posting with a long account and a quantity of two characters has been
\* printed with one space of padding, the quantity at column 57
C3_Witness ==
  /\ pc = "loop" /\ j > 1
  /\ AttemptedChild.kind = "posting" /\ is_some(QuantityOf(AttemptedChild))
  /\ NumberSize(AttemptedChild) = 2
  /\ PrefixCol(AttemptedChild) = AlignColumn - 4
  /\ ColumnAfterPadding(LastLine, PrefixChars(AttemptedChild)) = AlignColumn - 3
  /\ state.res = "ok"

\* C4: for every posting, also when col after the account is greater than 60
\* or greater than 60 - L - 1, the padding computations do not underflow: the
\* padding is 0 spaces, the rest of the line is printed and the run goes on.
C4_PaddingNeverUnderflows ==
  LET p == AttemptedChild
  IN (is_some(p) /\ p.kind = "posting"
      /\ \/ PrefixCol(p) > AlignColumn
         \/ is_some(QuantityOf(p))
            /\ PrefixCol(p) > AlignColumn - NumberSize(p) - 1) =>
       /\ state.res = "ok"
       /\ ColumnAfterPadding(LastLine, PrefixChars(p)) = PrefixCol(p)

\* the state of a run from st0 on tree root when it is at position (p, i, j),
\* failed telling whether it ended in position (i, j) with a failure
StateAt(root, st0, p, ii, jj, failed) ==
  LET before(n) == format_document_loop(st0, SubSeq(children(root), 1, n - 1), FALSE)
      node == loop_node(children(root)[ii])
      inloop(n) == format_loop(format_head(before(ii), node), node,
                               SubSeq(loop_children(node), 1, n))
  IN IF p = "start" \/ has_error(root) THEN st0
     ELSE IF p = "document" THEN before(ii)
     ELSE IF p = "loop" THEN inloop(jj - 1)
     ELSE IF ~failed THEN println(before(ii), <<>>)
     ELSE IF ~is_some(node) THEN before(ii + 1)
     ELSE IF jj = 0 THEN format_head(before(ii), node)
     ELSE IF jj <= Len(loop_children(node)) THEN inloop(jj)
     ELSE level_dec(inloop(jj - 1))

\* the run on the same tree in the other output mode, at the same position
OtherMode ==
  StateAt(tree, State(~state.inplace, state.overflow_checks), pc, i, j,
          state.res # "ok")

\* C5: for the same tree, what the stream has received when inplace is false
\* is what the buffer holds when inplace is true, at every position of the
\* run, with the same col, row and level; so the string returned in inplace
\* mode is the byte sequence written to the stream in the other mode.
C5_ModesAgree ==
  /\ Written(state) = Written(OtherMode)
  /\ state.col = OtherMode.col
  /\ state.row = OtherMode.row
  /\ state.level = OtherMode.level
  /\ state.res = OtherMode.res
  /\ state.inplace => state.stdout = <<>>
  /\ ~state.inplace => state.formatted = <<>>
  /\ (pc = "done" /\ result.tag = "Ok" /\ state.inplace) =>
       result.value = OtherMode.stdout

\* a successful run in stream mode over a comment, a blank line and a
\* transaction has written five lines, four of them through println
C5_Witness ==
  /\ pc = "done" /\ result.tag = "Ok" /\ ~state.inplace
  /\ children(tree) = <<Comment, Blank, SimpleXact>>
  /\ Len(Lines(state.stdout)) = 5
  /\ state.stdout = OtherMode.formatted
  /\ state.row = 4

\* C7: in stream mode, a run that ends in an error or a panic has written
\* nothing to the stream.
C7_NoOutputBeforeFailure ==
  (~state.inplace /\ pc = "done"
   /\ result.tag \in {"Err", "ErrNoNode", "ErrToken", "Panic"}) =>
    state.stdout = <<>>

\* root child n starts a run of blank-line markers
FirstOfRun(n) == n = 1 \/ children(tree)[n - 1].kind # "\n"

\* C8: of a run of blank-line markers the first emits exactly one line break
\* (one println of the empty string) and the others emit nothing, and
\* added_newline is false once a child that is no marker has been processed.
C8_BlankRunsCollapse ==
  [][/\ (pc = "document" /\ i <= Len(children(tree)) /\ RootChild.kind = "\n") =>
          /\ Written(state') =
               Written(state) \o (IF FirstOfRun(i) THEN <<"\n">> ELSE <<>>)
          /\ state'.row = state.row + (IF FirstOfRun(i) THEN 1 ELSE 0)
          /\ added_newline'
          /\ i' = i + 1
     /\ (pc' = "document" /\ i' > 1 /\ children(tree)[i' - 1].kind # "\n") =>
          ~added_newline'
    ]_vars

\* after a comment and a run of two markers, one blank line has been emitted
C8_Witness ==
  /\ pc = "document" /\ i = 4
  /\ children(tree) = <<Comment, Blank, Blank>>
  /\ Written(state) = <<";", "c", "\n", "\n">>
  /\ state.row = 1
  /\ added_newline

RECURSIVE WithoutFirst(_, _)
\* nodes without the first node of the kind
WithoutFirst(nodes, kind) ==
  IF nodes = <<>> THEN <<>>
  ELSE IF Head(nodes).kind = kind THEN Tail(nodes)
  ELSE <<Head(nodes)>> \o WithoutFirst(Tail(nodes), kind)

\* the named children of a periodic_xact or automated_xact that are left
\* after the first line: all but the interval / query and the note of that line
RemainingChildren(node) ==
  WithoutFirst(RejectSeq(named_children(node), {"interval", "query"}), "note")

\* C9: a periodic_xact or automated_xact, first in the document, has been
\* formatted: after its first line, every remaining named child has been
\* handled by the rule of plain_xact, in source order: each note on a line of
\* its own at the increased indentation, each posting by format_posting.
C9_RemainingChildrenPrinted ==
  LET node == loop_node(children(tree)[1])
  IN (pc = "document" /\ i = 2 /\ is_some(node)
      /\ node.kind \in {"periodic_xact", "automated_xact"}) =>
       Written(state) =
         Written(format_loop(
           format_head(State(state.inplace, state.overflow_checks), node),
           node, RemainingChildren(node)))

\* C10: level is 0 whenever format_document is about to dispatch a root
\* child and after a successful run, 1 inside the loop of a directive or
\* transaction formatter, and never anything else.
C10_LevelBalanced ==
  /\ state.level \in {0, 1}
  /\ pc \in {"start", "document"} => state.level = 0
  /\ pc = "loop" => state.level = 1
  /\ (pc = "done" /\ state.res = "ok") => state.level = 0

\* two transactions have been formatted one after the other, and level is 0
C10_Witness ==
  /\ pc = "document" /\ i = 3
  /\ children(tree) = <<SimpleXact, SimpleXact>>
  /\ state.level = 0 /\ state.row = 4

(***************************************************************************)
(* Parsing formatted text again.  The parser is the Syntax Tree Provider   *)
(* of the specification, outside the source: it is modelled here, from the *)
(* specification's description of the tree (4.2, 4.4-4.6), for texts made  *)
(* of empty lines and plain transactions: a line that is empty is a        *)
(* blank-line marker, a line that starts in column 0 is the date of a      *)
(* plain_xact, and the indented lines after it are its postings, an        *)
(* account being separated from its amount by two or more spaces.          *)
(***************************************************************************)
\* the index of the first character of text at or after k that is a space
\* followed by a space, or Len(text) + 1
gap_index(text) ==
  CHOOSE k \in 1..(Len(text) + 1) :
    /\ k <= Len(text) => (k < Len(text) /\ text[k] = " " /\ text[k + 1] = " ")
    /\ \A m \in 1..(k - 1) : ~(m < Len(text) /\ text[m] = " " /\ text[m + 1] = " ")

\* the index of the first space of text, or Len(text) + 1
space_index(text) ==
  CHOOSE k \in 1..(Len(text) + 1) :
    /\ k <= Len(text) => text[k] = " "
    /\ \A m \in 1..(k - 1) : text[m] # " "

\* the amount node of the text of an amount: a quantity and a commodity
parse_amount(text) ==
  LET k == space_index(text)
      number == SubSeq(text, 1, k - 1)
      commodity == trim(SubSeq(text, k, Len(text)))
  IN Node("amount",
          <<Leaf(IF Head(number) = "-" THEN "negative_quantity" ELSE "quantity",
                 number)>>
          \o (IF commodity = <<>> THEN <<>> ELSE <<Leaf("commodity", commodity)>>))

\* the posting node of an indented line
parse_posting(line) ==
  LET text == trim(line)
      k == gap_index(text)
      amount == trim(SubSeq(text, k, Len(text)))
  IN Node("posting",
          <<Leaf("account", SubSeq(text, 1, k - 1))>>
          \o (IF amount = <<>> THEN <<>> ELSE <<parse_amount(amount)>>))

RECURSIVE parse_postings(_)
\* the postings of the indented lines that lines starts with
parse_postings(lines) ==
  IF lines = <<>> \/ Head(lines) = <<>> \/ Head(Head(lines)) # " " THEN <<>>
  ELSE <<parse_posting(Head(lines))>> \o parse_postings(Tail(lines))

RECURSIVE parse_items(_)
\* the children of the root for the lines
parse_items(lines) ==
  IF lines = <<>> THEN <<>>
  ELSE IF Head(lines) = <<>> THEN <<Blank>> \o parse_items(Tail(lines))
  ELSE LET postings == parse_postings(Tail(lines))
       IN <<Item(Node("xact",
                      <<Node("plain_xact",
                             <<Leaf("date", Head(lines))>> \o postings)>>))>>
          \o parse_items(SubSeq(lines, Len(postings) + 2, Len(lines)))

\* the tree of a text
parse(text) == Root(parse_items(Lines(text)))

\* the trees whose formatted text that parser covers: blank-line markers and
\* plain transactions, at least one, of a date and postings of an account
\* and, at most, an amount of a quantity and a commodity
Parseable(root) ==
  /\ ~has_error(root)
  /\ \E k \in 1..Len(children(root)) : children(root)[k].kind # "\n"
  /\ \A k \in 1..Len(children(root)) :
       LET c == children(root)[k]
           x == loop_node(c)
       IN \/ c.kind = "\n"
          \/ /\ is_some(x) /\ x.kind = "plain_xact"
             /\ Len(children(x)) >= 2
             /\ children(x)[1] = Date
             /\ \A n \in 2..Len(children(x)) :
                  LET q == children(x)[n]
                  IN /\ q.kind = "posting"
                     /\ is_some(find(named_children(q), {"account"}))
                     /\ \A m \in 1..Len(children(q)) :
                          children(q)[m].kind \in {"account", "amount"}
                     /\ is_some(find(named_children(q), {"amount"})) =>
                          is_some(QuantityOf(q))

\* C6: for every input on which beautify succeeds, beautify on its output
\* succeeds and gives the same output, final line break included.
C6_Idempotent ==
  (pc = "done" /\ result.tag = "Ok" /\ Parseable(tree)) =>
    LET again == beautify_state(parse(Written(state)), state.inplace,
                                state.overflow_checks)
    IN /\ again.res = "ok"
       /\ Written(again) = Written(state)

(***************************************************************************)
(* col where format_posting reads it                                       *)
(***************************************************************************)
\* the number of characters of text after its last line break
CharsSinceBreak(text) ==
  LET breaks == {k \in 1..Len(text) : text[k] = "\n"}
  IN Len(text) - (IF breaks = {} THEN 0
                  ELSE CHOOSE k \in breaks : \A m \in breaks : m <= k)

\* the loop of a transaction is about to format a posting
AtPosting ==
  /\ pc = "loop" /\ state.res = "ok"
  /\ LoopNode.kind \in {"plain_xact", "periodic_xact", "automated_xact"}
  /\ j <= Len(loop_children(LoopNode))
  /\ loop_children(LoopNode)[j].kind = "posting"

\* format_posting, lines 481 and 494: the state in which col is read for the
\* fallback padding and for the padding of the amount (nothing is printed
\* between the two reads)
ColRead == format_posting_account(indent(state), loop_children(LoopNode)[j])

\* C11: where format_posting reads col for its paddings, col is the number of
\* characters written since the last line break, whatever was printed before
\* (comments, directives, texts of any characters).
C11_ColIsCharacterCount ==
  AtPosting => ColRead.col = CharsSinceBreak(Written(ColRead))

\* C12: a posting with an account and an amount has been formatted: at least
\* one space stands between the end of the account and the first character
\* of the quantity, whatever column the account ends at.
C12_SpaceBeforeQuantity ==
  LET p == AttemptedChild
  IN (is_some(p) /\ p.kind = "posting" /\ PostingAccount(p) # <<>>
      /\ is_some(QuantityOf(p)) /\ state.res = "ok") =>
       /\ QuantityPrinted(LastLine, p)
       /\ LastLine[PrefixChars(p) + 1] = " "

====
